---- MODULE Spec2Model ----
(***************************************************************************)
(* gen-reloc.py: generate PE base relocations from ELF absolute            *)
(* relocations.  Files are modelled as sequences of bytes (index k+1 of    *)
(* the sequence is the byte at file offset k); every field is read and     *)
(* written through the same little-endian pack/unpack steps as the code.   *)
(* All numeric field values of the inputs stay below 2^31.                 *)
(***************************************************************************)
EXTENDS Integers, Sequences, FiniteSets, TLC

(***************************************************************************)
(* Bounds of the model.                                                    *)
(***************************************************************************)
MaxRuns == 3

(***************************************************************************)
(* Program constants.                                                      *)
(***************************************************************************)
IMAGE_REL_BASED_DIR64 == 10
IMAGE_REL_BASED_ABSOLUTE == 0
PE_FILE_ALIGNMENT == 512
PE_SECTION_ALIGNMENT == 4096

(***************************************************************************)
(* Byte-level helpers: struct.unpack_from / struct.pack, slices.           *)
(***************************************************************************)
u16(d, off) == d[off + 1] + 256 * d[off + 2]

u32(d, off) == u16(d, off) + 65536 * u16(d, off + 2)

u64(d, off) ==
    IF u32(d, off + 4) = 0 THEN u32(d, off)
    ELSE u32(d, off) + u32(d, off + 4) * 65536 * 65536

pack16(v) == << v % 256, (v \div 256) % 256 >>

pack32(v) == pack16(v % 65536) \o pack16(v \div 65536)

pack64(v) == pack32(v) \o << 0, 0, 0, 0 >>

Zeros(n) == [k \in 1..n |-> 0]

\* d[a:b] with python slice clamping
Slice(d, a, b) ==
    LET lo == IF a > Len(d) THEN Len(d) ELSE a
        hi == IF b > Len(d) THEN Len(d) ELSE b
    IN  IF hi <= lo THEN << >> ELSE SubSeq(d, lo + 1, hi)

\* d[a:b] = v (bytearray slice assignment, the length may change)
SetSlice(d, a, b, v) ==
    LET lo == IF a > Len(d) THEN Len(d) ELSE a
        hi0 == IF b > Len(d) THEN Len(d) ELSE b
        hi == IF hi0 < lo THEN lo ELSE hi0
    IN  SubSeq(d, 1, lo) \o v \o SubSeq(d, hi + 1, Len(d))

\* struct.pack_into of a packed value v at offset off
pack_into(d, off, v) ==
    [k \in 1..Len(d) |->
        IF k > off /\ k <= off + Len(v) THEN v[k - off] ELSE d[k]]

AlignUp(x, a) == ((x + a - 1) \div a) * a

\* concatenation of ss[a..b] (split in halves to keep the evaluation shallow)
RECURSIVE FlattenRange(_, _, _)
FlattenRange(ss, a, b) ==
    IF a > b THEN << >>
    ELSE IF a = b THEN ss[a]
    ELSE LET mid == (a + b) \div 2
         IN  FlattenRange(ss, a, mid) \o FlattenRange(ss, mid + 1, b)

Flatten(ss) == FlattenRange(ss, 1, Len(ss))

SumLen(ss, n) == Len(FlattenRange(ss, 1, n))

(***************************************************************************)
(* Section names as ASCII byte strings.                                    *)
(***************************************************************************)
N_null == << >>
N_text == << 46, 116, 101, 120, 116 >>
N_data == << 46, 100, 97, 116, 97 >>
N_rodata == << 46, 114, 111, 100, 97, 116, 97 >>
N_rdata == << 46, 114, 100, 97, 116, 97 >>
N_rela == << 46, 114, 101, 108, 97 >>
N_rela_text == N_rela \o N_text
N_rela_data == N_rela \o N_data
N_rela_rodata == N_rela \o N_rodata
N_shstrtab == << 46, 115, 104, 115, 116, 114, 116, 97, 98 >>
N_reloc == << 46, 114, 101, 108, 111, 99 >>

(***************************************************************************)
(* ELF input files.  An input is described by its identification bytes,    *)
(* machine type and section list; ElfImage lays the description out as an  *)
(* ELF64 file: header, section bodies, section-header string table,        *)
(* section header table.                                                   *)
(***************************************************************************)
ElfIdent == << 127, 69, 76, 70, 2, 1 >>

RelaEntry(r_offset, sym, type) ==
    pack64(r_offset) \o pack32(type) \o pack32(sym) \o pack64(0)

Words(ws) == Flatten([k \in 1..Len(ws) |-> pack64(ws[k])])

ElfSec(name, type, addr, body, entsize) ==
    [name |-> name, type |-> type, addr |-> addr, body |-> body, entsize |-> entsize]

ElfImage(fx) ==
    LET user == fx.secs
        names == [k \in 1..Len(user) |-> user[k].name] \o << N_shstrtab >>
        strtab == << 0 >> \o Flatten([k \in 1..Len(names) |-> names[k] \o << 0 >>])
        secs == user \o << ElfSec(N_shstrtab, 3, 0, strtab, 0) >>
        n == Len(secs)
        bodies == [k \in 1..n |-> secs[k].body]
        nameoff(k) == k + SumLen(names, k - 1)
        fileoff(k) == 64 + SumLen(bodies, k - 1)
        shoff == 64 + SumLen(bodies, n)
        ehdr == fx.ident \o Zeros(12) \o pack16(fx.machine) \o Zeros(20)
                  \o pack64(shoff) \o Zeros(10) \o pack16(64) \o pack16(n)
                  \o pack16(n - 1)
        shdr(k) == pack32(nameoff(k)) \o pack32(secs[k].type) \o pack64(0)
                     \o pack64(secs[k].addr) \o pack64(fileoff(k))
                     \o pack64(Len(secs[k].body)) \o pack64(0) \o pack64(0)
                     \o pack64(secs[k].entsize)
    IN  ehdr \o Flatten(bodies) \o Flatten([k \in 1..n |-> shdr(k)])

(***************************************************************************)
(* parse_elf_sections: dict of section name -> descriptor.                 *)
(***************************************************************************)
sec_name(elf_data, st_off, name_off) ==
    LET start == st_off + name_off
        end == CHOOSE e \in start..Len(elf_data) :
                   /\ elf_data[e + 1] = 0
                   /\ \A k \in start..(e - 1) : elf_data[k + 1] # 0
    IN  Slice(elf_data, start, end)

parse_elf_sections(elf_data) ==
    LET e_shoff == u64(elf_data, 40)
        e_shentsize == u16(elf_data, 58)
        e_shnum == u16(elf_data, 60)
        e_shstrndx == u16(elf_data, 62)
        strtab_base == e_shoff + e_shstrndx * e_shentsize
        st_off == u64(elf_data, strtab_base + 24)
        base(i) == e_shoff + i * e_shentsize
        name(i) == sec_name(elf_data, st_off, u32(elf_data, base(i)))
        desc(i) == [addr |-> u64(elf_data, base(i) + 16),
                    offset |-> u64(elf_data, base(i) + 24),
                    size |-> u64(elf_data, base(i) + 32),
                    type |-> u32(elf_data, base(i) + 4),
                    entsize |-> u64(elf_data, base(i) + 56)]
        idx == 0..(e_shnum - 1)
        last(n) == CHOOSE i \in idx :
                       /\ name(i) = n
                       /\ \A j \in idx : name(j) = n => j <= i
    IN  [n \in {name(i) : i \in idx} |-> desc(last(n))]

(***************************************************************************)
(* read_elf_reloc_offsets: offsets of the R_*_64 records of .rela.data and *)
(* .rela.rodata.                                                           *)
(***************************************************************************)
EM_RISCV == 243
EM_LOONGARCH == 258
SHT_RELA == 4
abs_type == 2
default_entsize == 24

machine_supported(elf_data) == u16(elf_data, 18) \in {EM_RISCV, EM_LOONGARCH}

rela_section_selected(name, sec) ==
    sec.type = SHT_RELA /\ name \in {N_rela_data, N_rela_rodata}

\* r_info & 0xFFFFFFFF: the low four bytes of the little-endian field
r_type(raw, j) == u32(raw, j + 8)

rela_offsets(elf_data, sec) ==
    LET entsize == IF sec.entsize = 0 THEN default_entsize ELSE sec.entsize
        raw == Slice(elf_data, sec.offset, sec.offset + sec.size)
    IN  {u64(raw, j) : j \in {j \in 0..(Len(raw) - 1) :
                                  j % entsize = 0 /\ r_type(raw, j) = abs_type}}

read_elf_reloc_offsets(elf_data, sections) ==
    UNION {rela_offsets(elf_data, sections[n]) :
             n \in {m \in DOMAIN sections : rela_section_selected(m, sections[m])}}

(***************************************************************************)
(* scan_data_for_pointers: 8-byte values of .data that lie inside the      *)
(* image address range.                                                    *)
(***************************************************************************)
\* variant: the scan walks the read-only data
scanned_rodata == N_rodata

scanned_section == N_data

image_range(sections) ==
    LET live == {n \in DOMAIN sections :
                    sections[n].addr > 0 /\ sections[n].size > 0}
    IN  [live |-> live,
         lo |-> IF live = {} THEN 0
                ELSE CHOOSE a \in {sections[n].addr : n \in live} :
                        \A n \in live : a <= sections[n].addr,
         hi |-> IF live = {} THEN 0
                ELSE CHOOSE e \in {sections[n].addr + sections[n].size : n \in live} :
                        \A n \in live : sections[n].addr + sections[n].size <= e]

is_image_pointer(val, image_lo, image_hi) == image_lo <= val /\ val < image_hi

scan_data_for_pointers(elf_data, sections) ==
    IF scanned_section \notin DOMAIN sections THEN {}
    ELSE LET rng == image_range(sections)
             data_sec == sections[scanned_section]
             base == data_sec.offset
             addr == data_sec.addr
             size == data_sec.size
         IN  IF rng.live = {} THEN {}
             ELSE {addr + i : i \in {i \in 0..((size - (size % 8)) - 1) :
                       /\ i % 8 = 0
                       /\ is_image_pointer(u64(elf_data, base + i), rng.lo, rng.hi)}}

(***************************************************************************)
(* sorted(): ascending order of a list, and of the elements of a set.      *)
(***************************************************************************)
\* ascending order of the values of xs that lie in lo..hi
RECURSIVE sort_range(_, _, _)
sort_range(xs, lo, hi) ==
    IF Len(xs) <= 1 \/ lo = hi THEN xs
    ELSE LET mid == (lo + hi) \div 2
         IN  sort_range(SelectSeq(xs, LAMBDA x : x <= mid), lo, mid)
               \o sort_range(SelectSeq(xs, LAMBDA x : x > mid), mid + 1, hi)

\* variant: the list is used in the order given
unsorted(xs) == xs

sorted(xs) == sort_range(xs, 0, 2147483647)

\* ascending order of the elements of the set S that lie in lo..hi
RECURSIVE sort_set_range(_, _, _)
sort_set_range(S, lo, hi) ==
    IF S = {} THEN << >>
    ELSE IF lo = hi THEN << lo >>
    ELSE LET mid == (lo + hi) \div 2
         IN  sort_set_range({x \in S : x <= mid}, lo, mid)
               \o sort_set_range({x \in S : x > mid}, mid + 1, hi)

sorted_set(S) == sort_set_range(S, 0, 2147483647)

(***************************************************************************)
(* build_base_reloc_table: IMAGE_BASE_RELOCATION blocks for an RVA list.   *)
(***************************************************************************)
\* variant: page mask one bit too wide
page_of_wide_mask(rva) == rva - (rva % 8192)

page_of(rva) == rva - (rva % 4096)

page_offset(rva) == rva % 4096

\* pages.setdefault(page, []).append(rva & 0xFFF), in the order of the list
group_pages(offsets) ==
    [p \in {page_of(offsets[k]) : k \in 1..Len(offsets)} |->
        LET mine == SelectSeq(offsets, LAMBDA r : page_of(r) = p)
        IN  [k \in 1..Len(mine) |-> page_offset(mine[k])]]

reloc_entry(off) == pack16(IMAGE_REL_BASED_DIR64 * 4096 + off)

\* variant: no padding entry
no_padding(entry_data) == entry_data

RECURSIVE pad_entries(_)
pad_entries(entry_data) ==
    IF (8 + Len(entry_data)) % 4 # 0
    THEN pad_entries(entry_data \o pack16(IMAGE_REL_BASED_ABSOLUTE))
    ELSE entry_data

reloc_block(page_rva, entries) ==
    LET ordered == sorted(entries)
        entry_data == pad_entries(Flatten([k \in 1..Len(ordered) |->
                                              reloc_entry(ordered[k])]))
        block_size == 8 + Len(entry_data)
    IN  pack32(page_rva) \o pack32(block_size) \o entry_data

build_base_reloc_table(offsets) ==
    LET pages == group_pages(offsets)
        order == sorted_set(DOMAIN pages)
    IN  Flatten([k \in 1..Len(order) |-> reloc_block(order[k], pages[order[k]])])

(***************************************************************************)
(* PE destination files.  A destination is described by its header fields  *)
(* and section list; PeImage lays the description out as a file: DOS stub, *)
(* signature, COFF header, optional header with 16 data directories,       *)
(* section table, zero padding up to SizeOfHeaders, then the raw data of   *)
(* the sections one after the other.                                       *)
(***************************************************************************)
PeSec(name, vsize, va, raw_size, fill) ==
    [name |-> name, vsize |-> vsize, va |-> va, raw_size |-> raw_size, fill |-> fill]

RawBody(sec) == [k \in 1..sec.raw_size |-> 1 + ((k * sec.fill) % 255)]

PeImage(fx) ==
    LET n == Len(fx.secs)
        bodies == [k \in 1..n |-> RawBody(fx.secs[k])]
        rawoff(k) == fx.size_of_headers + SumLen(bodies, k - 1)
        dos == << 77, 90 >> \o Zeros(58) \o pack32(fx.lfanew) \o Zeros(fx.lfanew - 64)
        coff == pack16(20580) \o pack16(n) \o Zeros(12) \o pack16(240)
                  \o pack16(fx.chars)
        opt == pack16(fx.magic) \o Zeros(30) \o pack32(4096) \o pack32(512)
                 \o Zeros(16) \o pack32(fx.size_of_image) \o pack32(fx.size_of_headers)
                 \o Zeros(44) \o pack32(16) \o Zeros(40) \o pack32(fx.dd5[1])
                 \o pack32(fx.dd5[2]) \o Zeros(80)
        shdr(k) == fx.secs[k].name \o Zeros(8 - Len(fx.secs[k].name))
                     \o pack32(fx.secs[k].vsize) \o pack32(fx.secs[k].va)
                     \o pack32(fx.secs[k].raw_size) \o pack32(rawoff(k))
                     \o Zeros(12) \o pack32(1073741888)
        hdrs == dos \o fx.sig \o coff \o opt \o Flatten([k \in 1..n |-> shdr(k)])
    IN  hdrs \o Zeros(fx.size_of_headers - Len(hdrs)) \o Flatten(bodies)

(***************************************************************************)
(* patch_pe: header parsing.                                               *)
(***************************************************************************)
PE_SIGNATURE == << 80, 69, 0, 0 >>
PE32_PLUS_MAGIC == 523
SECTION_HEADER_SIZE == 40
RELOC_SECTION_CHARACTERISTICS == 1107296320

pe_header(pe) ==
    LET pe_sig_off == u32(pe, 60)
        coff_off == pe_sig_off + 4
        opt_off == coff_off + 20
        data_dir_off == opt_off + 112
    IN  [pe_sig_off |-> pe_sig_off,
         coff_off |-> coff_off,
         num_sections |-> u16(pe, coff_off + 2),
         opt_hdr_size |-> u16(pe, coff_off + 16),
         coff_chars_off |-> coff_off + 18,
         opt_off |-> opt_off,
         size_of_image_off |-> opt_off + 56,
         size_of_headers_off |-> opt_off + 60,
         dd5_off |-> data_dir_off + 5 * 8,
         sec_table_off |-> opt_off + u16(pe, coff_off + 16)]

valid_pe_signature(pe) ==
    LET pe_sig_off == u32(pe, 60)
    IN  Slice(pe, pe_sig_off, pe_sig_off + 4) = PE_SIGNATURE

is_pe32_plus(pe) == u16(pe, pe_header(pe).opt_off) = PE32_PLUS_MAGIC

\* bytes.rstrip(b"\x00")
rstrip_nul(b) ==
    LET nz == {k \in 1..Len(b) : b[k] # 0}
    IN  IF nz = {} THEN << >>
        ELSE SubSeq(b, 1, CHOOSE k \in nz : \A j \in nz : j <= k)

pe_sections(pe) ==
    LET h == pe_header(pe)
    IN  [i \in 1..h.num_sections |->
            LET sh_off == h.sec_table_off + (i - 1) * SECTION_HEADER_SIZE
            IN  [idx |-> i - 1,
                 name |-> rstrip_nul(Slice(pe, sh_off, sh_off + 8)),
                 header_off |-> sh_off,
                 virtual_size |-> u32(pe, sh_off + 8),
                 virtual_address |-> u32(pe, sh_off + 12),
                 raw_size |-> u32(pe, sh_off + 16),
                 raw_offset |-> u32(pe, sh_off + 20)]]

\* variant: the scan stops at the first .reloc section
find_first_reloc_idx(sections) ==
    LET named == {i \in 1..Len(sections) : sections[i].name = N_reloc}
    IN  IF named = {} THEN 0 ELSE CHOOSE i \in named : \A j \in named : i <= j

\* index into sections of the section the scan leaves in reloc_idx; 0 = None
find_reloc_idx(sections) ==
    LET named == {i \in 1..Len(sections) : sections[i].name = N_reloc}
    IN  IF named = {} THEN 0 ELSE CHOOSE i \in named : \A j \in named : j <= i

fits_in_place(reloc_data, sec) == Len(reloc_data) <= sec.raw_size

\* TRUE: replace the existing section in place; FALSE: add a new section
takes_replace_path(pe, reloc_data) ==
    LET sections == pe_sections(pe)
        reloc_idx == find_reloc_idx(sections)
    IN  reloc_idx # 0 /\ fits_in_place(reloc_data, sections[reloc_idx])

\* variant: the characteristics are written back unchanged
keep_relocs_stripped(chars) == chars

clear_relocs_stripped(chars) == chars - (chars % 2)

(***************************************************************************)
(* patch_pe: replace the existing .reloc section in place.                 *)
(***************************************************************************)
\* variant: the length is recorded in the raw-data-size field
replaced_raw_size_field_off(sec) == sec.header_off + 16

replaced_size_field_off(sec) == sec.header_off + 8

\* variant: the remainder is filled with raw_size zeros
zero_fill_whole_section(sec, n) == sec.raw_size

zero_fill_len(sec, n) == sec.raw_size - n

replace_in_place(pe, reloc_data) ==
    LET h == pe_header(pe)
        sections == pe_sections(pe)
        sec == sections[find_reloc_idx(sections)]
        n == Len(reloc_data)
        ro == sec.raw_offset
        pe1 == SetSlice(pe, ro, ro + n, reloc_data)
        pe2 == SetSlice(pe1, ro + n, ro + sec.raw_size, Zeros(zero_fill_len(sec, n)))
        pe3 == pack_into(pe2, replaced_size_field_off(sec), pack32(n))
        pe4 == pack_into(pe3, h.dd5_off, pack32(sec.virtual_address))
        pe5 == pack_into(pe4, h.dd5_off + 4, pack32(n))
        chars == u16(pe5, h.coff_chars_off)
    IN  pack_into(pe5, h.coff_chars_off, pack16(clear_relocs_stripped(chars)))

(***************************************************************************)
(* patch_pe: add a new .reloc section.                                     *)
(***************************************************************************)
\* max(sections, key=virtual_address): the first section with the highest address
last_section(sections) ==
    sections[CHOOSE i \in 1..Len(sections) :
                /\ \A j \in 1..Len(sections) :
                       sections[j].virtual_address <= sections[i].virtual_address
                /\ \A j \in 1..(i - 1) :
                       sections[j].virtual_address < sections[i].virtual_address]

Max(a, b) == IF a >= b THEN a ELSE b

new_section_rva(sections) ==
    LET last == last_section(sections)
        last_va_end == last.virtual_address + Max(last.virtual_size, last.raw_size)
    IN  AlignUp(last_va_end, PE_SECTION_ALIGNMENT)

has_header_room(pe) ==
    LET h == pe_header(pe)
        headers_end == h.sec_table_off + h.num_sections * SECTION_HEADER_SIZE
        size_of_headers == u32(pe, h.size_of_headers_off)
    IN  ~(headers_end + SECTION_HEADER_SIZE > size_of_headers)

new_image_size(new_rva, reloc_data) == new_rva + PE_SECTION_ALIGNMENT

append_section(pe, reloc_data) ==
    LET h == pe_header(pe)
        sections == pe_sections(pe)
        n == Len(reloc_data)
        raw_size == AlignUp(n, PE_FILE_ALIGNMENT)
        new_rva == new_section_rva(sections)
        new_raw_off == AlignUp(Len(pe), PE_FILE_ALIGNMENT)
        new_sh_off == h.sec_table_off + h.num_sections * SECTION_HEADER_SIZE
        header == N_reloc \o << 0, 0 >> \o pack32(n) \o pack32(new_rva)
                    \o pack32(raw_size) \o pack32(new_raw_off) \o Zeros(12)
                    \o pack32(RELOC_SECTION_CHARACTERISTICS)
        pe1 == SetSlice(pe, new_sh_off, new_sh_off + SECTION_HEADER_SIZE, header)
        pe2 == pack_into(pe1, h.coff_off + 2, pack16(h.num_sections + 1))
        pe3 == pack_into(pe2, h.size_of_image_off,
                         pack32(new_image_size(new_rva, reloc_data)))
        pe4 == pack_into(pe3, h.dd5_off, pack32(new_rva))
        pe5 == pack_into(pe4, h.dd5_off + 4, pack32(n))
        chars == u16(pe5, h.coff_chars_off)
        pe6 == pack_into(pe5, h.coff_chars_off, pack16(clear_relocs_stripped(chars)))
        pe7 == IF Len(pe6) < new_raw_off
               THEN pe6 \o Zeros(new_raw_off - Len(pe6)) ELSE pe6
    IN  pe7 \o reloc_data \o Zeros(raw_size - n)

(***************************************************************************)
(* Inputs of the model: ELF source files.                                  *)
(*   .text at 0x1000, .rodata at 0x2000, .data at 0x3000.                  *)
(***************************************************************************)
ElfInput ==
    [one_rela |->
        [ident |-> ElfIdent, machine |-> EM_RISCV, secs |-> <<
            ElfSec(N_null, 0, 0, << >>, 0),
            ElfSec(N_text, 1, 4096, Zeros(16), 0),
            ElfSec(N_data, 1, 12288, Words(<< 7, 2147483647 >>), 0),
            ElfSec(N_rela_text, SHT_RELA, 0, RelaEntry(4100, 1, 2), 24),
            ElfSec(N_rela_data, SHT_RELA, 0,
                   RelaEntry(12296, 5, 2) \o RelaEntry(12288, 3, 3), 24) >>],
     scan |->
        [ident |-> ElfIdent, machine |-> EM_LOONGARCH, secs |-> <<
            ElfSec(N_null, 0, 0, << >>, 0),
            ElfSec(N_text, 1, 4096, Zeros(16), 0),
            ElfSec(N_rodata, 1, 8192, Words(<< 4104, 12288 >>), 0),
            ElfSec(N_data, 1, 12288,
                   Words(<< 4104, 0, 12334, 99999, 8192 >>)
                     \o << 0, 16, 0, 0, 0, 0, 0 >>, 0) >>],
     rodata_only |->
        [ident |-> ElfIdent, machine |-> EM_RISCV, secs |-> <<
            ElfSec(N_null, 0, 0, << >>, 0),
            ElfSec(N_text, 1, 4096, Zeros(16), 0),
            ElfSec(N_rodata, 1, 8192, Words(<< 4096, 8200, 12288 >>), 0),
            ElfSec(N_data, 1, 12288, Words(<< 0, 1, 99999 >>), 0) >>],
     mixed |->
        [ident |-> ElfIdent, machine |-> EM_RISCV, secs |-> <<
            ElfSec(N_null, 0, 0, << >>, 0),
            ElfSec(N_text, 1, 4096, Zeros(16), 0),
            ElfSec(N_rodata, 1, 8192, Words(<< 4096, 0, 0, 12288 >>), 0),
            ElfSec(N_data, 1, 12288, Words(<< 0, 4100, 8216, 0, 0 >>), 0),
            ElfSec(N_rela_rodata, SHT_RELA, 0,
                   RelaEntry(8216, 2, 2) \o RelaEntry(8195, 2, 2), 0),
            ElfSec(N_rela_data, SHT_RELA, 0,
                   RelaEntry(12320, 4, 2) \o RelaEntry(12296, 4, 2)
                     \o RelaEntry(12312, 4, 1), 24) >>],
     pointer_table |->
        [ident |-> ElfIdent, machine |-> EM_LOONGARCH, secs |-> <<
            ElfSec(N_null, 0, 0, << >>, 0),
            ElfSec(N_text, 1, 4096, Zeros(16), 0),
            ElfSec(N_data, 1, 12288,
                   Words([k \in 1..254 |-> 4096 + 8 * (k % 2)]), 0) >>],
     not_elf64 |->
        [ident |-> << 127, 69, 76, 70, 1, 1 >>, machine |-> EM_RISCV, secs |-> <<
            ElfSec(N_null, 0, 0, << >>, 0),
            ElfSec(N_data, 1, 12288, Words(<< 12288 >>), 0) >>],
     x86_64 |->
        [ident |-> ElfIdent, machine |-> 62, secs |-> <<
            ElfSec(N_null, 0, 0, << >>, 0),
            ElfSec(N_data, 1, 12288, Words(<< 12288 >>), 0) >>],
     big_pointer_table |->
        [ident |-> ElfIdent, machine |-> EM_RISCV, secs |-> <<
            ElfSec(N_null, 0, 0, << >>, 0),
            ElfSec(N_text, 1, 4096, Zeros(16), 0),
            ElfSec(N_data, 1, 12288,
                   Words([k \in 1..2048 |-> 4096 + 8 * (k % 2)]), 0) >>]]

ElfFile(e) == ElfImage(ElfInput[e])

ElfNames ==
    {"one_rela", "scan", "rodata_only", "mixed", "pointer_table", "not_elf64", "x86_64"}

ElfNamesLarge == {"one_rela", "pointer_table", "big_pointer_table"}

(***************************************************************************)
(* Inputs of the model: PE destination files before the first run.         *)
(***************************************************************************)
PeInput ==
    [fresh |->
        [lfanew |-> 64, sig |-> PE_SIGNATURE, magic |-> PE32_PLUS_MAGIC, chars |-> 35,
         size_of_headers |-> 512, size_of_image |-> 16384, dd5 |-> << 0, 0 >>,
         secs |-> << PeSec(N_text, 400, 4096, 512, 3),
                     PeSec(N_rdata, 100, 8192, 512, 5),
                     PeSec(N_data, 600, 12288, 512, 7) >>],
     has_reloc |->
        [lfanew |-> 64, sig |-> PE_SIGNATURE, magic |-> PE32_PLUS_MAGIC, chars |-> 35,
         size_of_headers |-> 512, size_of_image |-> 16384, dd5 |-> << 8192, 24 >>,
         secs |-> << PeSec(N_text, 400, 4096, 512, 3),
                     PeSec(N_reloc, 24, 8192, 512, 11),
                     PeSec(N_data, 300, 12288, 512, 7) >>],
     full |->
        [lfanew |-> 128, sig |-> PE_SIGNATURE, magic |-> PE32_PLUS_MAGIC, chars |-> 34,
         size_of_headers |-> 512, size_of_image |-> 16384, dd5 |-> << 12288, 12 >>,
         secs |-> << PeSec(N_text, 400, 4096, 512, 3),
                     PeSec(N_data, 300, 8192, 512, 7),
                     PeSec(N_reloc, 12, 12288, 512, 13) >>],
     bad_sig |->
        [lfanew |-> 64, sig |-> << 80, 69, 0, 1 >>, magic |-> PE32_PLUS_MAGIC,
         chars |-> 35, size_of_headers |-> 512, size_of_image |-> 8192,
         dd5 |-> << 0, 0 >>, secs |-> << PeSec(N_text, 400, 4096, 512, 3) >>],
     pe32 |->
        [lfanew |-> 64, sig |-> PE_SIGNATURE, magic |-> 267,
         chars |-> 35, size_of_headers |-> 512, size_of_image |-> 8192,
         dd5 |-> << 0, 0 >>, secs |-> << PeSec(N_text, 400, 4096, 512, 3) >>],
     no_sections |->
        [lfanew |-> 64, sig |-> PE_SIGNATURE, magic |-> PE32_PLUS_MAGIC,
         chars |-> 35, size_of_headers |-> 512, size_of_image |-> 4096,
         dd5 |-> << 0, 0 >>, secs |-> << >>]]

PeNames == {"fresh", "has_reloc", "full", "bad_sig", "pe32", "no_sections"}

(***************************************************************************)
(* State.                                                                  *)
(***************************************************************************)
VARIABLES
    file,           \* bytes of the destination file on disk
    file0,          \* bytes of the destination file when the current run began
    elf,            \* name of the ELF input of the current run
    pc,             \* position of the run: idle (no run in progress), discover,
                    \*   build, patch, replace, append
    outcome,        \* how the last run ended (running while in progress)
    reloc_offsets,  \* main: offsets of explicit relocation records
    scan_offsets,   \* main: offsets found by the pointer scan
    all_offsets,    \* main: sorted union
    reloc_data,     \* main: bytes of the relocation table
    path,           \* patch_pe: the paths executed in the current run, in order
    writes,         \* number of times the current run wrote the destination file
    runs            \* number of runs started

vars == << file, file0, elf, pc, outcome, reloc_offsets, scan_offsets, all_offsets,
           reloc_data, path, writes, runs >>

main_vars == << reloc_offsets, scan_offsets, all_offsets, reloc_data >>

InitWith(pes) ==
    /\ \E p \in pes : file = PeImage(PeInput[p])
    /\ file0 = file
    /\ elf = "none"
    /\ pc = "idle"
    /\ outcome = "none"
    /\ reloc_offsets = {}
    /\ scan_offsets = {}
    /\ all_offsets = << >>
    /\ reloc_data = << >>
    /\ path = << >>
    /\ writes = 0
    /\ runs = 0

Init == InitWith(PeNames)

Finish(result) == pc' = "idle" /\ outcome' = result

valid_elf_signature(elf_data) ==
    ~(Slice(elf_data, 0, 4) # << 127, 69, 76, 70 >> \/ elf_data[5] # 2 \/ elf_data[6] # 1)

\* main: read the ELF file and check its signature
main_read_elf(names) ==
    /\ pc = "idle"
    /\ runs < MaxRuns
    /\ \E e \in names :
          /\ elf' = e
          /\ IF valid_elf_signature(ElfFile(e))
             THEN pc' = "discover" /\ outcome' = "running"
             ELSE Finish("err_not_elf64")
    /\ runs' = runs + 1
    /\ file0' = file
    /\ reloc_offsets' = {}
    /\ scan_offsets' = {}
    /\ all_offsets' = << >>
    /\ reloc_data' = << >>
    /\ path' = << >>
    /\ writes' = 0
    /\ UNCHANGED file

\* variant: the empty offset list is not detected
never_no_relocations(offsets) == FALSE

no_relocations(offsets) == offsets = << >>

\* main: parse the sections, collect the offsets of both discovery paths
main_discover ==
    /\ pc = "discover"
    /\ LET elf_data == ElfFile(elf)
           sections == parse_elf_sections(elf_data)
       IN  IF ~machine_supported(elf_data)
           THEN /\ Finish("err_machine")
                /\ UNCHANGED << reloc_offsets, scan_offsets, all_offsets >>
           ELSE /\ reloc_offsets' = read_elf_reloc_offsets(elf_data, sections)
                /\ scan_offsets' = scan_data_for_pointers(elf_data, sections)
                /\ all_offsets' = sorted_set(reloc_offsets' \cup scan_offsets')
                /\ IF no_relocations(all_offsets')
                   THEN Finish("no_relocs")
                   ELSE pc' = "build" /\ UNCHANGED outcome
    /\ UNCHANGED << file, file0, elf, reloc_data, path, writes, runs >>

\* main: build the table
main_build ==
    /\ pc = "build"
    /\ reloc_data' = build_base_reloc_table(all_offsets)
    /\ pc' = "patch"
    /\ UNCHANGED << file, file0, elf, outcome, reloc_offsets, scan_offsets,
                    all_offsets, path, writes, runs >>

\* patch_pe: read the destination, check its headers, choose the path
patch_pe_parse ==
    /\ pc = "patch"
    /\ IF ~valid_pe_signature(file) THEN Finish("err_pe_signature")
       ELSE IF ~is_pe32_plus(file) THEN Finish("err_not_pe32_plus")
       ELSE /\ pc' = IF takes_replace_path(file, reloc_data) THEN "replace" ELSE "append"
            /\ UNCHANGED outcome
    /\ UNCHANGED << file, file0, elf, main_vars, path, writes, runs >>

\* patch_pe: overwrite the existing section and write the file
patch_pe_replace ==
    /\ pc = "replace"
    /\ file' = replace_in_place(file, reloc_data)
    /\ writes' = writes + 1
    /\ path' = Append(path, "replace")
    /\ Finish("patched")
    /\ UNCHANGED << file0, elf, main_vars, runs >>

\* patch_pe: add a section and write the file, or fail before any change
patch_pe_append ==
    /\ pc = "append"
    /\ path' = Append(path, "append")
    /\ IF pe_sections(file) = << >>
       THEN Finish("err_no_sections") /\ UNCHANGED << file, writes >>
       ELSE IF ~has_header_room(file)
       THEN Finish("err_no_header_room") /\ UNCHANGED << file, writes >>
       ELSE /\ file' = append_section(file, reloc_data)
            /\ writes' = writes + 1
            /\ Finish("patched")
    /\ UNCHANGED << file0, elf, main_vars, runs >>

Next ==
    \/ main_read_elf(ElfNames)
    \/ main_discover
    \/ main_build
    \/ patch_pe_parse
    \/ patch_pe_replace
    \/ patch_pe_append

Spec == Init /\ [][Next]_vars

(***************************************************************************)
(* The table builder and the patcher on arbitrary offset sets: main right  *)
(* after discovery, for every non-empty subset of OffsetUniverse.          *)
(***************************************************************************)
OffsetUniverse == {0, 8, 4088, 4095, 4096, 8200, 12296, 1048592}

InitTables ==
    /\ \E p \in {"fresh", "has_reloc"} : file = PeImage(PeInput[p])
    /\ file0 = file
    /\ elf = "any"
    /\ pc = "build"
    /\ outcome = "running"
    /\ \E S \in SUBSET OffsetUniverse :
          /\ S # {}
          /\ reloc_offsets = S
          /\ all_offsets = sorted_set(S)
    /\ scan_offsets = {}
    /\ reloc_data = << >>
    /\ path = << >>
    /\ writes = 0
    /\ runs = 1

NextTables ==
    \/ main_build
    \/ patch_pe_parse
    \/ patch_pe_replace
    \/ patch_pe_append

SpecTables == InitTables /\ [][NextTables]_vars

\* the same program with the input that yields a table longer than one page
InitLarge == InitWith({"fresh", "has_reloc", "full"})

NextLarge ==
    \/ main_read_elf(ElfNamesLarge)
    \/ main_discover
    \/ main_build
    \/ patch_pe_parse
    \/ patch_pe_replace
    \/ patch_pe_append

SpecLarge == InitLarge /\ [][NextLarge]_vars

(***************************************************************************)
(* Reading the destination file back, for the properties below.            *)
(***************************************************************************)
ErrorOutcomes ==
    {"err_not_elf64", "err_machine", "err_pe_signature", "err_not_pe32_plus",
     "err_no_header_room", "err_no_sections"}

Patched == pc = "idle" /\ outcome = "patched"

Replaced == Patched /\ path = << "replace" >>

Appended == Patched /\ path = << "append" >>

DirEntry(pe) ==
    [va |-> u32(pe, pe_header(pe).dd5_off), size |-> u32(pe, pe_header(pe).dd5_off + 4)]

Characteristics(pe) == u16(pe, pe_header(pe).coff_chars_off)

StrippedBitSet(pe) == (Characteristics(pe) % 2) = 1

SizeOfImage(pe) == u32(pe, pe_header(pe).size_of_image_off)

RelocSections(pe) ==
    {i \in 1..Len(pe_sections(pe)) : pe_sections(pe)[i].name = N_reloc}

LastRelocIdx(pe) == CHOOSE i \in RelocSections(pe) : \A j \in RelocSections(pe) : j <= i

\* the section a run writes the table to: the last .reloc section
TableSection(pe) == pe_sections(pe)[LastRelocIdx(pe)]

RawBytes(pe, sec) == Slice(pe, sec.raw_offset, sec.raw_offset + sec.raw_size)

HeaderBytes(pe, sec) == Slice(pe, sec.header_off, sec.header_off + SECTION_HEADER_SIZE)

\* the table bytes as a loader finds them: the section at the directory's address
TableInImage(pe) ==
    LET dd == DirEntry(pe)
        secs == pe_sections(pe)
        i == CHOOSE i \in 1..Len(secs) : secs[i].virtual_address = dd.va
    IN  Slice(pe, secs[i].raw_offset, secs[i].raw_offset + dd.size)

\* decoding of a table: its blocks, and the RVAs of its 64-bit entries in order
RECURSIVE DecodeBlocks(_, _)
DecodeBlocks(t, pos) ==
    IF pos + 8 > Len(t) THEN << >>
    ELSE LET size == u32(t, pos + 4)
             count == IF size < 8 \/ pos + size > Len(t) THEN 0 ELSE (size - 8) \div 2
             blk == [page |-> u32(t, pos), size |-> size,
                     entries |-> [k \in 1..count |-> u16(t, pos + 8 + 2 * (k - 1))]]
         IN  IF count = 0 THEN << blk >>
             ELSE << blk >> \o DecodeBlocks(t, pos + size)

EntryKind(e) == e \div 4096

EntryOffset(e) == e % 4096

RealEntries(blk) == SelectSeq(blk.entries, LAMBDA e : EntryKind(e) = 10)

DecodedRVAs(t) ==
    LET blocks == DecodeBlocks(t, 0)
    IN  Flatten([b \in 1..Len(blocks) |->
                    [k \in 1..Len(RealEntries(blocks[b])) |->
                        blocks[b].page + EntryOffset(RealEntries(blocks[b])[k])]])

SeqRange(q) == {q[k] : k \in 1..Len(q)}

NoDuplicates(q) == \A i, j \in 1..Len(q) : q[i] = q[j] => i = j

DiscoveredSet == reloc_offsets \cup scan_offsets

TableBuilt == pc \in {"patch", "replace", "append"} \/ Patched

(***************************************************************************)
(* C1: the destination file is written if and only if the full patch       *)
(* completes.  A run that ends in a format error, in a capacity error, or  *)
(* with an empty offset set leaves the file's bytes exactly as they were,  *)
(* a run in progress has not touched the file, and a run that wrote the    *)
(* file wrote it once, with the complete patch (table in a .reloc section, *)
(* directory entry and characteristics updated).                           *)
(***************************************************************************)
CompletePatch ==
    /\ RelocSections(file) # {}
    /\ DirEntry(file) = [va |-> TableSection(file).virtual_address,
                         size |-> Len(reloc_data)]
    /\ Slice(RawBytes(file, TableSection(file)), 0, Len(reloc_data)) = reloc_data
    /\ ~StrippedBitSet(file)

C1_WrittenIffPatched ==
    /\ pc # "idle" => file = file0 /\ writes = 0
    /\ outcome \in ErrorOutcomes \cup {"no_relocs"} => file = file0 /\ writes = 0
    /\ (pc = "idle" /\ runs > 0 /\ DiscoveredSet = {}) => file = file0 /\ writes = 0
    /\ outcome = "patched" <=> writes = 1
    /\ writes \in {0, 1}
    /\ writes = 1 => CompletePatch
    /\ file # file0 => writes = 1

C1_Witness ==
    /\ outcome = "err_no_header_room"
    /\ path = << "append" >>
    /\ reloc_data # << >>
    /\ file = file0

(***************************************************************************)
(* C3: after a successful patch, data-directory slot 5 holds the virtual   *)
(* address of the section that contains the table and the table's exact    *)
(* byte length, and the relocations-stripped bit is clear; if the file had *)
(* no .reloc section before, the section count grew by exactly one, the    *)
(* earlier section headers are as they were and the added one is .reloc.   *)
(***************************************************************************)
C3_DirectoryAndFlag ==
    Patched =>
        /\ RelocSections(file) # {}
        /\ DirEntry(file).va = TableSection(file).virtual_address
        /\ DirEntry(file).size = Len(reloc_data)
        /\ TableInImage(file) = reloc_data
        /\ ~StrippedBitSet(file)
        /\ RelocSections(file0) = {} =>
              LET before == pe_sections(file0)
                  after == pe_sections(file)
              IN  /\ Len(after) = Len(before) + 1
                  /\ SubSeq(after, 1, Len(before)) = before
                  /\ after[Len(after)].name = N_reloc

C3_Witness ==
    /\ Appended
    /\ RelocSections(file0) = {}
    /\ StrippedBitSet(file0)
    /\ Len(pe_sections(file)) = 4

(***************************************************************************)
(* C4: the replace-in-place path keeps the file length and the section     *)
(* count, leaves the header of every other section unchanged, and changes  *)
(* no byte outside the relocation section's raw range, the size field of   *)
(* its header that the patch records the table length in, the directory    *)
(* entry and the characteristics field.                                    *)
(***************************************************************************)
ReplaceMayWrite(k, h, sec) ==
    LET in(a, n) == k > a /\ k <= a + n
    IN  \/ in(sec.raw_offset, sec.raw_size)
        \/ in(sec.header_off + 8, 4)
        \/ in(h.dd5_off, 8)
        \/ in(h.coff_chars_off, 2)

C4_ReplaceFrame ==
    Replaced =>
        LET before == pe_sections(file0)
            after == pe_sections(file)
            r == LastRelocIdx(file0)
        IN  /\ Len(file) = Len(file0)
            /\ Len(after) = Len(before)
            /\ \A i \in 1..Len(before) : i # r => after[i] = before[i]
            /\ LET h == pe_header(file0)
                   sec == [name |-> before[r].name, header_off |-> before[r].header_off,
                           raw_offset |-> before[r].raw_offset,
                           raw_size |-> before[r].raw_size]
               IN  \A k \in 1..Len(file0) :
                       ~ReplaceMayWrite(k, h, sec) => file[k] = file0[k]

C4_Witness ==
    /\ Replaced
    /\ LastRelocIdx(file0) = 2
    /\ Len(pe_sections(file0)) = 3
    /\ Len(reloc_data) < TableSection(file0).raw_size
    /\ file # file0

(***************************************************************************)
(* C2: round trip of the relocation table.  Decoding the bytes produced by *)
(* build_base_reloc_table block by block (page RVA + 12-bit offset of      *)
(* every entry of the 64-bit kind, padding ignored) yields exactly the     *)
(* offset set, each RVA once; so does decoding the table found in the      *)
(* patched image's relocation section.                                     *)
(***************************************************************************)
DecodesTo(t, S) ==
    /\ NoDuplicates(DecodedRVAs(t))
    /\ SeqRange(DecodedRVAs(t)) = S

C2_RoundTrip ==
    /\ TableBuilt => DecodesTo(reloc_data, DiscoveredSet)
    /\ Patched => DecodesTo(TableInImage(file), DiscoveredSet)

C2_Witness ==
    /\ Patched
    /\ Cardinality(DiscoveredSet) >= 5
    /\ Len(DecodeBlocks(TableInImage(file), 0)) >= 3
    /\ 4095 \in DiscoveredSet
    /\ 4096 \in DiscoveredSet

(***************************************************************************)
(* C6: in the built table the blocks follow one another up to the end of   *)
(* the table; every block's length field is a multiple of 4 and equals     *)
(* 8 + 2 x (real entries + padding entries), the real entries being one    *)
(* per offset of the block's page; a block has at most one padding entry,  *)
(* after its real entries, of the no-op kind with offset field zero.       *)
(***************************************************************************)
RECURSIVE TotalSize(_)
TotalSize(blocks) ==
    IF blocks = << >> THEN 0 ELSE Head(blocks).size + TotalSize(Tail(blocks))

BlockWellFormed(blk, S) ==
    LET nreal == Cardinality({a \in S : a - (a % 4096) = blk.page})
        real == SelectSeq(blk.entries, LAMBDA e : EntryKind(e) = IMAGE_REL_BASED_DIR64)
        padding == SelectSeq(blk.entries, LAMBDA e : EntryKind(e) = IMAGE_REL_BASED_ABSOLUTE)
    IN  /\ blk.size % 4 = 0
        /\ Len(real) = nreal
        /\ blk.size = 8 + 2 * (Len(real) + Len(padding))
        /\ Len(padding) <= 1
        /\ \A k \in 1..Len(blk.entries) :
              k > nreal => blk.entries[k] = 0
        /\ \A k \in 1..nreal : EntryKind(blk.entries[k]) = IMAGE_REL_BASED_DIR64

C6_BlockLengths ==
    TableBuilt =>
        LET blocks == DecodeBlocks(reloc_data, 0)
        IN  /\ TotalSize(blocks) = Len(reloc_data)
            /\ \A b \in 1..Len(blocks) : BlockWellFormed(blocks[b], DiscoveredSet)

C6_Witness ==
    /\ TableBuilt
    /\ LET blocks == DecodeBlocks(reloc_data, 0)
       IN  /\ \E b \in 1..Len(blocks) : blocks[b].entries[Len(blocks[b].entries)] = 0
           /\ \E b \in 1..Len(blocks) :
                 /\ Len(blocks[b].entries) = 2
                 /\ blocks[b].entries[2] # 0

(***************************************************************************)
(* C7: in the built table every page RVA has its low 12 bits zero, blocks  *)
(* are strictly ascending by page RVA, the real entries of a block are     *)
(* strictly ascending by offset, and the table does not depend on the      *)
(* order the offsets are supplied in.                                      *)
(***************************************************************************)
Reorder(q, f) == [k \in 1..Len(q) |-> q[f[k]]]

Orders(q) ==
    LET n == Len(q)
    IN  IF n <= 4 THEN {Reorder(q, f) : f \in Permutations(1..n)}
        ELSE {[k \in 1..n |-> q[n + 1 - k]],
              [k \in 1..n |-> q[1 + (k % n)]],
              [k \in 1..n |-> q[IF k % 2 = 0 THEN k - 1
                                 ELSE IF k < n THEN k + 1 ELSE k]]}

StrictlyAscending(q) == \A i \in 1..(Len(q) - 1) : q[i] < q[i + 1]

C7_SortedDeterministic ==
    TableBuilt =>
        LET blocks == DecodeBlocks(reloc_data, 0)
        IN  /\ \A b \in 1..Len(blocks) :
                  /\ blocks[b].page % 4096 = 0
                  /\ StrictlyAscending([k \in 1..Len(RealEntries(blocks[b])) |->
                                           EntryOffset(RealEntries(blocks[b])[k])])
            /\ StrictlyAscending([b \in 1..Len(blocks) |-> blocks[b].page])
            /\ \A order \in Orders(all_offsets) :
                  build_base_reloc_table(order) = reloc_data

C7_Witness ==
    /\ TableBuilt
    /\ Len(all_offsets) = 4
    /\ LET blocks == DecodeBlocks(reloc_data, 0)
       IN  /\ Len(blocks) = 2
           /\ Len(RealEntries(blocks[1])) = 3

(***************************************************************************)
(* C5: on the append path the SizeOfImage written by patch_pe covers the   *)
(* whole new section: it is at least the new section's virtual address     *)
(* plus the table's byte length (the new section's virtual size).          *)
(***************************************************************************)
C5_SizeOfImageCoversSection ==
    Appended =>
        SizeOfImage(file) >=
            TableSection(file).virtual_address + TableSection(file).virtual_size

(***************************************************************************)
(* C8: the pointer scan reads .data only.  The scan-derived offsets are    *)
(* exactly the addresses .data address + i, i a multiple of 8 with         *)
(* i + 8 <= size, whose 8-byte little-endian value lies in                 *)
(* [image_lo, image_hi); replacing the contents of .rodata by any other    *)
(* bytes of the same length gives the same scan result.                    *)
(***************************************************************************)
FxSection(fx, name) ==
    fx.secs[CHOOSE k \in 1..Len(fx.secs) :
               /\ fx.secs[k].name = name
               /\ \A j \in 1..Len(fx.secs) : fx.secs[j].name = name => j <= k]

FxHas(fx, name) == \E k \in 1..Len(fx.secs) : fx.secs[k].name = name

FxLive(fx) == {k \in 1..Len(fx.secs) : fx.secs[k].addr > 0 /\ Len(fx.secs[k].body) > 0}

FxInImage(fx, val) ==
    /\ \E k \in FxLive(fx) : fx.secs[k].addr <= val
    /\ \E k \in FxLive(fx) : val < fx.secs[k].addr + Len(fx.secs[k].body)

FxPointerSteps(fx, name) ==
    LET sec == FxSection(fx, name)
    IN  {i \in 0..(Len(sec.body) - 8) : i % 8 = 0 /\ FxInImage(fx, u64(sec.body, i))}

ExpectedScan(fx) ==
    IF ~FxHas(fx, N_data) THEN {}
    ELSE {FxSection(fx, N_data).addr + i : i \in FxPointerSteps(fx, N_data)}

\* the same ELF with other bytes in .rodata
RodataVariants(fx) ==
    IF ~FxHas(fx, N_rodata) THEN {}
    ELSE LET k == CHOOSE k \in 1..Len(fx.secs) : fx.secs[k].name = N_rodata
             body == fx.secs[k].body
             with(b) == [fx EXCEPT !.secs[k].body = b]
         IN  {with(Zeros(Len(body))),
              with([j \in 1..Len(body) |-> (body[j] + 1) % 256]),
              with(Words([j \in 1..(Len(body) \div 8) |-> 12288]))}

Discovered ==
    \/ pc \in {"build", "patch", "replace", "append"}
    \/ pc = "idle" /\ outcome \in {"patched", "no_relocs", "err_pe_signature",
                                   "err_not_pe32_plus", "err_no_header_room",
                                   "err_no_sections"}

C8_ScanReadsDataOnly ==
    Discovered =>
        /\ scan_offsets = ExpectedScan(ElfInput[elf])
        /\ \A alt \in RodataVariants(ElfInput[elf]) :
              scan_data_for_pointers(ElfImage(alt), parse_elf_sections(ElfImage(alt)))
                  = scan_offsets

C8_Witness ==
    /\ pc = "idle"
    /\ outcome = "no_relocs"
    /\ FxPointerSteps(ElfInput[elf], N_rodata) # {}
    /\ FxPointerSteps(ElfInput[elf], N_data) = {}
    /\ scan_offsets = {}

(***************************************************************************)
(* C9 as stated: after a replacement in place the section's raw bytes are  *)
(* the table followed by zeros up to the old raw size, the header field    *)
(* updated is the raw-data-size field, set to record the new table, and    *)
(* the virtual size, virtual address and raw-data offset are as before.    *)
(***************************************************************************)
ReplacedContent(before, after) ==
    /\ after.raw_offset = before.raw_offset
    /\ Slice(file, before.raw_offset, before.raw_offset + before.raw_size)
           = reloc_data \o Zeros(before.raw_size - Len(reloc_data))

C9_RawSizeFieldUpdated ==
    Replaced =>
        LET before == TableSection(file0)
            after == TableSection(file)
        IN  /\ ReplacedContent(before, after)
            /\ after.raw_size = Len(reloc_data)
            /\ after.virtual_size = before.virtual_size
            /\ after.virtual_address = before.virtual_address

(***************************************************************************)
(* C9 amended: after a replacement in place the section's raw bytes are    *)
(* the table followed by zeros up to the old raw size, the header field    *)
(* updated is the virtual-size field, set to the table's byte length, and  *)
(* the raw-data size, virtual address and raw-data offset are as before.   *)
(***************************************************************************)
C9_VirtualSizeFieldUpdated ==
    Replaced =>
        LET before == TableSection(file0)
            after == TableSection(file)
        IN  /\ ReplacedContent(before, after)
            /\ after.virtual_size = Len(reloc_data)
            /\ after.raw_size = before.raw_size
            /\ after.virtual_address = before.virtual_address

C9_Witness ==
    /\ Replaced
    /\ TableSection(file0).virtual_size # Len(reloc_data)
    /\ TableSection(file0).raw_size > Len(reloc_data)
    /\ RawBytes(file0, TableSection(file0)) # RawBytes(file, TableSection(file))

(***************************************************************************)
(* C10: a successful patch_pe executes exactly one of the two paths: the   *)
(* replace path if and only if some section named .reloc exists whose raw  *)
(* size is at least the table length, the append path otherwise; when the  *)
(* existing .reloc section is too small the append path runs and leaves    *)
(* the header and the raw bytes of the old section unchanged in the image. *)
(***************************************************************************)
SomeRelocSectionFits(pe, t) ==
    \E i \in RelocSections(pe) : pe_sections(pe)[i].raw_size >= Len(t)

====
